---- MODULE Spec2Model ----
(***************************************************************************)
(* Model of pdf_formatter.py: ExamReformatter.parse_pdf groups the pages   *)
(* of a document by the "TEZA <n>" marker found in their text, and         *)
(* ExamReformatter.reformat_pdf lays the groups out on 3 x 2 grid sheets:  *)
(* a front/back pair per batch of six exams, then a third-page sheet plus  *)
(* a blank per batch of six exams that have three or more pages.           *)
(***************************************************************************)
EXTENDS Integers, Sequences, FiniteSets, TLC

VARIABLES
    pages,             \* the document: per page, the marker id found in its text or None
    page_num,          \* parse_pdf: loop variable
    current_exam,      \* parse_pdf: id of the last marker seen, or None
    exams,             \* self.exams: exam id -> list of 0-based page indices
    pc,                \* "parse", "primary", "third", "done", or "aborted" (uncaught exception)
    exam_numbers,      \* reformat_pdf: sorted(self.exams.keys())
    i,                 \* reformat_pdf: loop variable of the primary loop
    batch_count,       \* reformat_pdf: batch_count
    batches,           \* the values of `batch` in the primary loop, in order
    third_page_exams,  \* reformat_pdf: third_page_exams
    j,                 \* reformat_pdf: loop variable of the third-page loop
    third_batches,     \* the values of `batch` in the third-page loop, in order
    output,            \* output_writer: the sheets appended with add_page
    printed,           \* number of "Error processing ..." lines printed by the except clauses
    raised,            \* "render" once an exception has left create_grid_page, else "none"
    written            \* the output file has been written

vars == <<pages, page_num, current_exam, exams, pc, exam_numbers, i,
          batch_count, batches, third_page_exams, j, third_batches,
          output, printed, raised, written>>

\* ------------------------------------------------------------- bounds
\* Length of the freely chosen head of the document.
MaxFree == 3
\* The head's markers carry ids 0..MaxFreeId.
MaxFreeId == 2
\* Number of exams that may follow the head.
MaxTail == 6
\* Number of pages of each exam that follows the head.
MaxTailPages == 3

\* ---------------------------------------------------- program constants
grid_cols == 3
grid_rows == 2
\* exam_numbers[i:i+6], len(batch) < 6
BatchSize == 6
\* Python's None (an empty slot, no page index, no current exam); also the
\* result of re.search on a page whose text holds no marker.
None == -1

\* ------------------------------------------------------------- inputs
\* A page is modelled by what re.search(r'TEZA\s*(\d+)') yields on its
\* text: the integer of the marker, or None.
PageTexts == (0..MaxFreeId) \cup {None}

RECURSIVE SeqsUpTo(_, _)
SeqsUpTo(S, n) ==
    IF n = 0 THEN {<<>>}
    ELSE LET shorter == SeqsUpTo(S, n - 1)
         IN  shorter \cup {Append(s, x) : s \in {t \in shorter : Len(t) = n - 1}, x \in S}

\* k exams of p pages each (a marker page, then p - 1 pages without marker),
\* with the ids MaxFreeId+k .. MaxFreeId+1 in descending order.
ExamsTail(k, p) ==
    [n \in 1..(k * p) |->
        IF (n - 1) % p = 0 THEN MaxFreeId + k - ((n - 1) \div p) ELSE None]

Docs ==
    {h \o ExamsTail(k, p) :
        h \in SeqsUpTo(PageTexts, MaxFree), k \in 0..MaxTail, p \in 1..MaxTailPages}

\* ------------------------------------------------------------ helpers
\* Python truthiness of an exam number or None: `if exam_num and ...`.
Truthy(x) == x # None /\ x # 0

\* sorted(...) of a set of integers.
RECURSIVE Sorted(_)
Sorted(S) ==
    IF S = {} THEN <<>>
    ELSE LET m == CHOOSE x \in S : \A y \in S : x <= y
         IN  <<m>> \o Sorted(S \ {m})

\* One iteration of the loop of parse_pdf on page pn whose marker is m:
\* the new value of self.exams.
ExamsAfterPageReplacing(ex, cur, m, pn) ==
    IF m # None THEN
        [e \in DOMAIN ex \cup {m} |-> IF e = m THEN <<pn>> ELSE ex[e]]
    ELSE IF cur # None THEN [ex EXCEPT ![cur] = Append(@, pn)]
    ELSE ex

ExamsAfterPage(ex, cur, m, pn) ==
    IF m # None THEN
        LET ex1 == IF m \notin DOMAIN ex
                   THEN [e \in DOMAIN ex \cup {m} |-> IF e = m THEN <<>> ELSE ex[e]]
                   ELSE ex
        IN  [ex1 EXCEPT ![m] = Append(@, pn)]
    ELSE IF cur # None THEN [ex EXCEPT ![cur] = Append(@, pn)]
    ELSE ex

\* seq[i:i+6] padded with None while len(batch) < 6 (i is 0-based).
BatchAtShortSlice(seq, k) ==
    [n \in 1..BatchSize |-> IF n < BatchSize /\ k + n <= Len(seq) THEN seq[k + n] ELSE None]

BatchAt(seq, k) ==
    [n \in 1..BatchSize |-> IF k + n <= Len(seq) THEN seq[k + n] ELSE None]

\* back_order = [batch[2], batch[1], batch[0], batch[5], batch[4], batch[3]]
BackOrderUnmirrored(batch) == batch

BackOrder(batch) ==
    <<batch[3], batch[2], batch[1], batch[6], batch[5], batch[4]>>

\* page_indices of the front sheet: the first page of each slot's exam.
FrontIndices(batch, ex) ==
    [n \in 1..Len(batch) |->
        IF Truthy(batch[n]) /\ batch[n] \in DOMAIN ex THEN ex[batch[n]][1] ELSE None]

\* page_indices of the back sheet: the second page of each slot's exam.
BackIndices(back_order, ex) ==
    [n \in 1..Len(back_order) |->
        IF Truthy(back_order[n]) /\ back_order[n] \in DOMAIN ex
           /\ Len(ex[back_order[n]]) > 1
        THEN ex[back_order[n]][2] ELSE None]

\* page_indices of a third-page sheet: the third page of each slot's exam.
ThirdIndices(batch, ex) ==
    [n \in 1..Len(batch) |->
        IF Truthy(batch[n]) /\ Len(ex[batch[n]]) >= 3 THEN ex[batch[n]][3] ELSE None]

\* [exam for exam in exam_numbers if len(self.exams[exam]) >= 3]
ThirdPageExams(nums, ex) == SelectSeq(nums, LAMBDA e : Len(ex[e]) >= 3)

\* A grid position nothing is drawn at.
EmptyCell ==
    [exam |-> None, page |-> None, row |-> None, col |-> None,
     border |-> FALSE, label |-> [e |-> None, p |-> None], image |-> FALSE]

\* What create_grid_page draws at grid position idx (0-based).
DrawCell(exam_num, page_idx, idx, ex) ==
    IF exam_num = None \/ page_idx = None THEN EmptyCell
    ELSE [exam |-> exam_num, page |-> page_idx,
          row |-> idx \div grid_cols, col |-> idx % grid_cols,
          border |-> TRUE,
          label |-> [e |-> exam_num, p |-> page_idx - ex[exam_num][1] + 1],
          image |-> TRUE]

ZipLen(a, b) == IF Len(a) < Len(b) THEN Len(a) ELSE Len(b)

\* create_grid_page(exam_numbers, page_indices, title). failAt is the 1-based
\* grid position whose get_pixmap / drawImage call raises (0: none does); the
\* call raises only if the loop reaches a drawn cell at that position. The
\* exception leaves create_grid_page: the try statement has a finally clause
\* (removing the temporary image) and no except clause.
CreateGridPage(nums, page_indices, title, ex, failAt) ==
    LET n         == ZipLen(nums, page_indices)
        cells     == [k \in 1..n |-> DrawCell(nums[k], page_indices[k], k - 1, ex)]
        raises    == failAt \in 1..n /\ cells[failAt] # EmptyCell
    IN  [raised      |-> raises,
         has_content |-> \E k \in 1..n : cells[k] # EmptyCell,
         sheet       |-> [kind |-> "grid", title |-> title, cells |-> cells]]

\* create_blank_page()
BlankSheet ==
    [kind |-> "blank", title |-> [text |-> "", batch |-> 0, exams |-> <<>>], cells |-> <<>>]

FirstTitle(n) == [text |-> "First Pages", batch |-> n, exams |-> <<>>]
SecondTitle(n) == [text |-> "Second Pages", batch |-> n, exams |-> <<>>]
ThirdTitle(batch) ==
    [text |-> "Third Pages", batch |-> 0, exams |-> SelectSeq(batch, LAMBDA b : b # None)]

\* Where a call may raise during one batch.
PrimaryFaults ==
    {[site |-> "none", cell |-> 0], [site |-> "add_front", cell |-> 0],
     [site |-> "add_back", cell |-> 0]}
    \cup {[site |-> s, cell |-> c] : s \in {"render_front", "render_back"}, c \in 1..BatchSize}

ThirdFaults ==
    {[site |-> "none", cell |-> 0], [site |-> "add_third", cell |-> 0],
     [site |-> "add_blank", cell |-> 0]}
    \cup {[site |-> "render_third", cell |-> c] : c \in 1..BatchSize}

\* -------------------------------------------------------------- state
Init ==
    /\ pages \in Docs
    /\ page_num = 0
    /\ current_exam = None
    /\ exams = <<>>
    /\ pc = "parse"
    /\ exam_numbers = <<>>
    /\ i = 0
    /\ batch_count = 0
    /\ batches = <<>>
    /\ third_page_exams = <<>>
    /\ j = 0
    /\ third_batches = <<>>
    /\ output = <<>>
    /\ printed = 0
    /\ raised = "none"
    /\ written = FALSE

\* parse_pdf: one iteration of `for page_num in range(len(pdf_reader.pages))`.
ParsePage ==
    /\ pc = "parse"
    /\ page_num < Len(pages)
    /\ LET m == pages[page_num + 1]
       IN  /\ exams' = ExamsAfterPage(exams, current_exam, m, page_num)
           /\ current_exam' = IF m # None THEN m ELSE current_exam
    /\ page_num' = page_num + 1
    /\ UNCHANGED <<pages, pc, exam_numbers, i, batch_count, batches,
                   third_page_exams, j, third_batches, output, printed, raised, written>>

\* parse_pdf returns; reformat_pdf sorts the exam numbers and creates the writer.
SortExams ==
    /\ pc = "parse"
    /\ page_num = Len(pages)
    /\ exam_numbers' = Sorted(DOMAIN exams)
    /\ pc' = "primary"
    /\ UNCHANGED <<pages, page_num, current_exam, exams, i, batch_count, batches,
                   third_page_exams, j, third_batches, output, printed, raised, written>>

\* One iteration of `for i in range(0, len(exam_numbers), 6)`.
PrimaryBatch ==
    /\ pc = "primary"
    /\ i < Len(exam_numbers)
    /\ \E fault \in PrimaryFaults :
        LET batch      == BatchAt(exam_numbers, i)
            n          == batch_count + 1
            front      == CreateGridPage(batch, FrontIndices(batch, exams), FirstTitle(n), exams,
                              IF fault.site = "render_front" THEN fault.cell ELSE 0)
            back_order == BackOrder(batch)
            back       == CreateGridPage(back_order, BackIndices(back_order, exams),
                              SecondTitle(n), exams,
                              IF fault.site = "render_back" THEN fault.cell ELSE 0)
            second     == IF back.has_content THEN back.sheet ELSE BlankSheet
        IN  /\ batch_count' = n
            /\ batches' = Append(batches, batch)
            /\ IF front.raised \/ back.raised
               THEN /\ raised' = "render"
                    /\ pc' = "aborted"
                    /\ UNCHANGED <<i, output, printed>>
               ELSE /\ i' = i + BatchSize
                    /\ UNCHANGED <<raised, pc>>
                    /\ CASE fault.site = "add_front" ->
                              output' = output /\ printed' = printed + 1
                         [] fault.site = "add_back" ->
                              output' = Append(output, front.sheet) /\ printed' = printed + 1
                         [] OTHER ->
                              output' = output \o <<front.sheet, second>> /\ printed' = printed
    /\ UNCHANGED <<pages, page_num, current_exam, exams, exam_numbers,
                   third_page_exams, j, third_batches, written>>

\* The primary loop ends; third_page_exams is filtered from exam_numbers.
FilterThirdPages ==
    /\ pc = "primary"
    /\ i >= Len(exam_numbers)
    /\ third_page_exams' = ThirdPageExams(exam_numbers, exams)
    /\ pc' = "third"
    /\ UNCHANGED <<pages, page_num, current_exam, exams, exam_numbers, i, batch_count,
                   batches, j, third_batches, output, printed, raised, written>>

\* One iteration of `for i in range(0, len(third_page_exams), 6)`.
ThirdBatch ==
    /\ pc = "third"
    /\ j < Len(third_page_exams)
    /\ \E fault \in ThirdFaults :
        LET batch == BatchAt(third_page_exams, j)
            third == CreateGridPage(batch, ThirdIndices(batch, exams), ThirdTitle(batch), exams,
                         IF fault.site = "render_third" THEN fault.cell ELSE 0)
        IN  /\ third_batches' = Append(third_batches, batch)
            /\ IF third.raised
               THEN /\ raised' = "render"
                    /\ pc' = "aborted"
                    /\ UNCHANGED <<j, output, printed>>
               ELSE /\ j' = j + BatchSize
                    /\ UNCHANGED <<raised, pc>>
                    /\ CASE fault.site = "add_third" ->
                              output' = output /\ printed' = printed + 1
                         [] fault.site = "add_blank" ->
                              output' = Append(output, third.sheet) /\ printed' = printed + 1
                         [] OTHER ->
                              output' = output \o <<third.sheet, BlankSheet>> /\ printed' = printed
    /\ UNCHANGED <<pages, page_num, current_exam, exams, exam_numbers, i, batch_count,
                   batches, third_page_exams, written>>

\* with open(self.output_pdf, 'wb'): output_writer.write(output_file)
WriteOutput ==
    /\ pc = "third"
    /\ j >= Len(third_page_exams)
    /\ written' = TRUE
    /\ pc' = "done"
    /\ UNCHANGED <<pages, page_num, current_exam, exams, exam_numbers, i, batch_count,
                   batches, third_page_exams, j, third_batches, output, printed, raised>>

Next ==
    \/ ParsePage
    \/ SortExams
    \/ PrimaryBatch
    \/ FilterThirdPages
    \/ ThirdBatch
    \/ WriteOutput

Spec == Init /\ [][Next]_vars

\* ------------------------------------------------------------- claims
Owners(p) == {e \in DOMAIN exams : \E k \in 1..Len(exams[e]) : exams[e][k] = p}

\* The 0-based positions of the marker pages at or before page p.
MarkersUpTo(p) == {q \in 0..p : pages[q + 1] # None}

Max(S) == CHOOSE x \in S : \A y \in S : y <= x

StrictlyAscending(seq) == \A a, b \in 1..Len(seq) : a < b => seq[a] < seq[b]

\* C1: when parse_pdf has returned, every page is in exactly the group named
\* by the most recent marker at or before it and in no other group, a page
\* before the first marker is in no group, the groups are exactly the ids
\* of the markers (none when there is no marker), and every group's list is
\* non-empty and in source order.
ClassifyFollowsLatestMarker ==
    (pc = "primary" /\ batch_count = 0) =>
        /\ \A p \in 0..(Len(pages) - 1) :
              LET before == MarkersUpTo(p)
              IN  IF before = {} THEN Owners(p) = {}
                  ELSE LET e == pages[Max(before) + 1]
                       IN  /\ Owners(p) = {e}
                           /\ Cardinality({k \in 1..Len(exams[e]) : exams[e][k] = p}) = 1
        /\ DOMAIN exams = {pages[n] : n \in 1..Len(pages)} \ {None}
        /\ \A e \in DOMAIN exams :
              /\ Len(exams[e]) >= 1
              /\ StrictlyAscending(exams[e])
              /\ \A k \in 1..Len(exams[e]) : exams[e][k] \in 0..(Len(pages) - 1)

\* A finished parse of a document that starts with a page without marker, in
\* which a marker re-appears and a later exam has pages without marker.
ClassifyWitness ==
    /\ pc = "primary"
    /\ Len(pages) >= 2
    /\ pages[1] = None
    /\ \E e \in DOMAIN exams : \E k \in 2..Len(exams[e]) : pages[exams[e][k] + 1] = e
    /\ \E e \in DOMAIN exams : \E k \in 2..Len(exams[e]) : pages[exams[e][k] + 1] = None

RECURSIVE FilledSlots(_)
FilledSlots(bs) ==
    IF bs = <<>> THEN <<>>
    ELSE SelectSeq(Head(bs), LAMBDA b : b # None) \o FilledSlots(Tail(bs))

CeilDiv(n, d) == (n + d - 1) \div d

\* C2: when the primary loop has ended, it has formed ceil(|ids| / 6)
\* batches of exactly 6 slots each, the empty slots are the trailing slots of
\* the last batch, and the filled slots read in order are the ids of the
\* groups, each once, in strictly ascending order.
PrimaryBatchesPartitionIds ==
    pc \in {"third", "done"} =>
        /\ Len(batches) = CeilDiv(Cardinality(DOMAIN exams), 6)
        /\ \A n \in 1..Len(batches) :
              /\ Len(batches[n]) = 6
              /\ \A s \in 1..Len(batches[n]) :
                    batches[n][s] = None =>
                        /\ n = Len(batches)
                        /\ \A t \in s..Len(batches[n]) : batches[n][t] = None
        /\ LET filled == FilledSlots(batches)
           IN  /\ StrictlyAscending(filled)
               /\ {filled[n] : n \in 1..Len(filled)} = DOMAIN exams
               /\ Len(filled) = Cardinality(DOMAIN exams)

\* A finished run with two primary batches, the second one padded, of a
\* document whose markers do not come in ascending order.
PrimaryBatchesWitness ==
    /\ pc = "done"
    /\ Len(batches) = 2
    /\ batches[2][1] # None
    /\ batches[2][6] = None
    /\ \E a, b \in 1..Len(pages) : a < b /\ pages[a] # None /\ pages[b] # None /\ pages[a] > pages[b]

IsFront(s) == s.kind = "grid" /\ s.title.text = "First Pages"
IsBack(s) == s.kind = "grid" /\ s.title.text = "Second Pages"
IsThird(s) == s.kind = "grid" /\ s.title.text = "Third Pages"
IsBlank(s) == s.kind = "blank"

\* 1-based index of the grid position (row, col), both 0-based.
At(row, col) == row * grid_cols + col + 1

\* C6: a rendered back sheet directly follows the front sheet of its batch,
\* and its cell at (row, col) holds the second page of the group whose first
\* page is in the front cell at (row, cols-1-col), and is empty if that front
\* cell is empty or its group has no second page; a blank sheet stands in
\* only when no group on the front sheet has a second page.
BackMirrorsFront ==
    \A q \in 1..Len(output) :
        /\ IsBack(output[q]) =>
              /\ q > 1
              /\ IsFront(output[q - 1])
              /\ output[q - 1].title.batch = output[q].title.batch
        /\ (IsFront(output[q]) /\ q < Len(output)
               /\ (IsBack(output[q + 1]) \/ IsBlank(output[q + 1]))) =>
              \A row \in 0..(grid_rows - 1), col \in 0..(grid_cols - 1) :
                  LET fc == output[q].cells[At(row, grid_cols - 1 - col)]
                  IN  /\ fc # EmptyCell => fc.page = exams[fc.exam][1]
                      /\ IF IsBack(output[q + 1])
                         THEN LET bc == output[q + 1].cells[At(row, col)]
                              IN  IF fc # EmptyCell /\ Len(exams[fc.exam]) >= 2
                                  THEN /\ bc.exam = fc.exam
                                       /\ bc.page = exams[fc.exam][2]
                                       /\ bc.row = row
                                       /\ bc.col = col
                                       /\ bc.image
                                  ELSE bc = EmptyCell
                         ELSE fc = EmptyCell \/ Len(exams[fc.exam]) < 2

\* A rendered back sheet with second pages in an outer column of both rows.
BackMirrorsWitness ==
    \E q \in 2..Len(output) :
        /\ IsBack(output[q])
        /\ output[q].cells[At(0, 0)] # EmptyCell
        /\ output[q].cells[At(0, 2)] = EmptyCell
        /\ output[q].cells[At(1, 2)] # EmptyCell

\* C3: the appended sheets come in pairs: their number is even, every sheet
\* at an odd 1-based position is a rendered front or third-page sheet, the
\* sheet after a front sheet is the back sheet of the same batch or a blank,
\* the sheet after a third-page sheet is a blank, and the written document
\* has 2 * (primary batches + supplemental batches) sheets.
SheetsComeInPairs ==
    /\ Len(output) % 2 = 0
    /\ \A q \in 1..Len(output) :
          q % 2 = 1 =>
              /\ IsFront(output[q]) \/ IsThird(output[q])
              /\ q < Len(output)
              /\ IsFront(output[q]) =>
                    \/ IsBlank(output[q + 1])
                    \/ /\ IsBack(output[q + 1])
                       /\ output[q + 1].title.batch = output[q].title.batch
              /\ IsThird(output[q]) => IsBlank(output[q + 1])
    /\ written => Len(output) = 2 * (Len(batches) + Len(third_batches))

\* The exams of the batch a front sheet was rendered for.
BatchOf(sheet) == batches[sheet.title.batch]

\* C4: the sheet appended after a primary batch's front sheet is the rendered
\* back sheet if and only if some group of the batch has two or more pages,
\* and is a blank sheet otherwise.
BackRenderedIffSecondPage ==
    \A q \in 1..Len(output) :
        (IsFront(output[q]) /\ q < Len(output)
         /\ (IsBack(output[q + 1]) \/ IsBlank(output[q + 1]))) =>
            (IsBack(output[q + 1]) <=>
                \E s \in 1..Len(BatchOf(output[q])) :
                    /\ BatchOf(output[q])[s] \in DOMAIN exams
                    /\ Len(exams[BatchOf(output[q])[s]]) >= 2)

\* C5: on every front sheet the cell at grid position s shows the first page
\* of the group in slot s of its batch whenever that slot holds a group, and
\* is empty only when the slot is an empty padding slot.
FrontShowsEverySlot ==
    \A q \in 1..Len(output) :
        IsFront(output[q]) =>
            \A s \in 1..Len(BatchOf(output[q])) :
                IF BatchOf(output[q])[s] = None
                THEN output[q].cells[s] = EmptyCell
                ELSE /\ output[q].cells[s].exam = BatchOf(output[q])[s]
                     /\ output[q].cells[s].page = exams[BatchOf(output[q])[s]][1]
                     /\ output[q].cells[s].image

\* The groups with three or more pages.
Extended == {e \in DOMAIN exams : Len(exams[e]) >= 3}

\* C7: in the written document the third-page sheets form the tail: the last
\* 2 * ceil(E / 6) sheets are pairs of a third-page sheet and a blank, no
\* third-page sheet precedes them, the filled cells of the third-page sheets
\* read in order are the groups with three or more pages in ascending order,
\* each showing its third page, and there is none when E = 0.
ThirdSheetsFormTail ==
    written =>
        LET n     == 2 * CeilDiv(Cardinality(Extended), 6)
            first == Len(output) - n + 1
        IN  /\ Len(output) >= n
            /\ \A q \in 1..Len(output) :
                  /\ q < first => ~IsThird(output[q])
                  /\ (q >= first /\ (q - first) % 2 = 0) =>
                        /\ IsThird(output[q])
                        /\ \A s \in 1..6 :
                              LET k == 6 * ((q - first) \div 2) + s
                              IN  IF k <= Cardinality(Extended)
                                  THEN /\ output[q].cells[s].exam = Sorted(Extended)[k]
                                       /\ output[q].cells[s].page = exams[Sorted(Extended)[k]][3]
                                  ELSE output[q].cells[s] = EmptyCell
                  /\ (q >= first /\ (q - first) % 2 = 1) => IsBlank(output[q])

\* C8: the label of every drawn cell names the cell's group and the 1-based
\* rank of the drawn page within the group's page list.
LabelIsRankInGroup ==
    \A q \in 1..Len(output) : \A s \in 1..Len(output[q].cells) :
        LET c == output[q].cells[s]
        IN  c # EmptyCell =>
                /\ c.label.e = c.exam
                /\ c.label.p \in 1..Len(exams[c.exam])
                /\ exams[c.exam][c.label.p] = c.page

\* C9: a cell whose rasterization or image drawing fails does not stop the
\* run: the run is not aborted, and goes on to produce its sheets.
RenderFailureIsLocal ==
    raised = "render" => pc # "aborted"

\* C10: after a failure to append a sheet no output file is written.
AppendFailureWritesNothing ==
    printed > 0 => ~written

====
